---- MODULE Spec2Model ----
(***************************************************************************)
(* A model of picatz/graph: the node/edge entity model (nodes.go,          *)
(* edges.go), the traversal engine visitWithTerminator and the path        *)
(* queries built on it.                                                    *)
(*                                                                         *)
(* A graph is a function from node handles to adjacency lists; an          *)
(* adjacency list is a sequence of Edge records [Node, Direction], in      *)
(* insertion order.  Node identity is the handle, never a label.           *)
(***************************************************************************)
EXTENDS Integers, Sequences, FiniteSets

\* The node handles of the model (the *Node pointers the caller holds).
Nodes == {1, 2, 3}

\* A mutation is enabled while the graph holds fewer connections than this.
MaxConn == 2

\* The longest argument list handed to ConnectNodes / MeshNodes / AdjacentTo.
MaxArgs == 3

\* EdgeDirection constants.
Unknown == 0
None == 1
In == 2
Out == 3
Both == 4

\* The five defined direction tags.
Directions == {Unknown, None, In, Out, Both}

\* Direction values a caller can pass: EdgeDirection is an int, so values
\* outside the five defined ones exist on both sides of the range.
DirectionInputs == (0 - 3) .. 7

\* The direction values handed to AddEdgeWithDirection: the five tags and the
\* nearest value outside them on either side.
TagInputs == (0 - 1) .. 5

VARIABLES
    edges,  \* edges[n]: the adjacency list n.Edges
    op,     \* the last call made: its name and arguments
    res     \* what the last query returned (NoResult after a mutation)

vars == <<edges, op, res>>

NoResult == [kind |-> "none"]

\* &Edge{Node: n, Direction: d}
Edge(n, d) == [Node |-> n, Direction |-> d]

\* All sequences over S of length 0..k.
SeqUpTo(S, k) == UNION {[1..i -> S] : i \in 0..k}

\* Nodes without edges, as after NewNode / &Node{}.
EmptyGraph == [n \in Nodes |-> <<>>]

\* Number of logical connections held by g (two records each).
RECURSIVE SumLen(_, _)
SumLen(g, S) ==
    IF S = {} THEN 0
    ELSE LET n == CHOOSE x \in S : TRUE
         IN Len(g[n]) + SumLen(g, S \ {n})

Size(g) == SumLen(g, DOMAIN g) \div 2

----------------------------------------------------------------------------
(* Edge construction: nodes.go *)

\* A plausible slip: the back-record on the target is forgotten.
AddEdge_NoBackRecord(g, n, e) ==
    [g EXCEPT ![n] = Append(@, Edge(e, Out))]

\* A plausible slip: the back-record carries the same tag as the front one.
AddEdge_SameTag(g, n, e) ==
    LET g1 == [g EXCEPT ![n] = Append(@, Edge(e, Out))]
    IN [g1 EXCEPT ![e] = Append(@, Edge(n, Out))]

\* func (n *Node) AddEdge(e *Node): the two appends run in order, so a
\* self-loop (n = e) gets Out then In on the same list.
AddEdge(g, n, e) ==
    LET g1 == [g EXCEPT ![n] = Append(@, Edge(e, Out))]
    IN [g1 EXCEPT ![e] = Append(@, Edge(n, In))]

\* func (n *Node) AddLink(e *Node)
AddLink(g, n, e) == AddEdge(AddEdge(g, n, e), e, n)

\* A plausible slip: the In case stores In on both sides.
AddEdgeWithDirection_InBoth(g, n, e, direction) ==
    LET put(h, x, y, d) == [h EXCEPT ![x] = Append(@, Edge(y, d))]
    IN CASE direction \in {None, Unknown, Both} ->
              put(put(g, n, e, direction), e, n, direction)
         [] direction = Out -> put(put(g, n, e, Out), e, n, In)
         [] direction = In -> put(put(g, n, e, In), e, n, In)
         [] OTHER -> g

\* func (n *Node) AddEdgeWithDirection(e *Node, direction EdgeDirection):
\* the switch has no default, so any other value adds nothing.
AddEdgeWithDirection(g, n, e, direction) ==
    LET put(h, x, y, d) == [h EXCEPT ![x] = Append(@, Edge(y, d))]
    IN CASE direction \in {None, Unknown, Both} ->
              put(put(g, n, e, direction), e, n, direction)
         [] direction = Out -> put(put(g, n, e, Out), e, n, In)
         [] direction = In -> put(put(g, n, e, In), e, n, Out)
         [] OTHER -> g

\* func ConnectNodes(nodes ...*Node): the loop from index i on.
RECURSIVE ConnectFrom(_, _, _)
ConnectFrom(g, nodes, i) ==
    IF i > Len(nodes) THEN g
    ELSE IF i + 1 <= Len(nodes)
         THEN ConnectFrom(AddEdge(g, nodes[i], nodes[i + 1]), nodes, i + 1)
         ELSE ConnectFrom(g, nodes, i + 1)

ConnectNodes(g, nodes) == ConnectFrom(g, nodes, 1)

\* func MeshNodes(nodes ...*Node): the inner loop over nodes[i+1:], from j on.
RECURSIVE MeshInner(_, _, _, _)
MeshInner(g, nodes, i, j) ==
    IF j > Len(nodes) THEN g
    ELSE MeshInner(AddEdge(AddEdge(g, nodes[i], nodes[j]), nodes[j], nodes[i]),
                   nodes, i, j + 1)

\* The outer loop of MeshNodes, from i on.
RECURSIVE MeshFrom(_, _, _)
MeshFrom(g, nodes, i) ==
    IF i > Len(nodes) THEN g
    ELSE IF i + 1 <= Len(nodes)
         THEN MeshFrom(MeshInner(g, nodes, i, i + 1), nodes, i + 1)
         ELSE MeshFrom(g, nodes, i + 1)

MeshNodes(g, nodes) == MeshFrom(g, nodes, 1)

----------------------------------------------------------------------------
(* The direction model and adjacency reads: edges.go *)

\* func (d EdgeDirection) AnyOf(directions ...EdgeDirection) bool
AnyOf(d, directions) == d \in directions

\* A plausible slip, the table of Match's own doc comment: a None query also
\* accepts a stored Both.
Match_NoneAcceptsBoth(d, direction) ==
    CASE direction = None -> AnyOf(d, {None, Both})
      [] direction = In -> AnyOf(d, {In, Both})
      [] direction = Out -> AnyOf(d, {Out, Both})
      [] direction = Both -> AnyOf(d, {In, Out, Both})
      [] OTHER -> d = Unknown \/ d > 4

\* func (d EdgeDirection) Match(direction EdgeDirection) bool: d is the
\* stored value, direction the queried one.
Match(d, direction) ==
    CASE direction = None -> d = None
      [] direction = In -> AnyOf(d, {In, Both})
      [] direction = Out -> AnyOf(d, {Out, Both})
      [] direction = Both -> AnyOf(d, {In, Out, Both})
      [] OTHER -> d = Unknown \/ d > 4

\* func (edges Edges) AdjacentTo(nodes ...*Node) bool: nodeSet collects the
\* given nodes some record references; its size is compared with the length
\* of the argument list.
AdjacentTo(es, nodes) ==
    LET nodeSet == {nodes[j] : j \in {k \in 1..Len(nodes) :
                        \E i \in 1..Len(es) : es[i].Node = nodes[k]}}
    IN Cardinality(nodeSet) = Len(nodes)

----------------------------------------------------------------------------
(* The traversal engine: nodes.go.  A callback is a record the engine      *)
(* interprets; the traversal state st carries the visited set (record),    *)
(* the callback invocations made so far with what each returned (calls),   *)
(* and the variables PathTo's closure captures (hasPath, path).            *)

StartState == [record |-> {}, calls |-> <<>>, hasPath |-> FALSE, path |-> <<>>]

\* The callbacks visit and visitAll wrap the caller's fn in: run fn, continue.
WrapFn == [kind |-> "wrapFn"]

\* A caller's callback that returns false (stop) on the nodes in stops.
StopFn(stops) == [kind |-> "stopFn", stops |-> stops]

\* The closure PathTo hands to visitWithTerminator.
PathToFn(end) == [kind |-> "pathTo", end |-> end]

\* The tags PathTo's closure accepts on a record that references end.
PathToTags == {Out, Both, None, Unknown}

\* A plausible slip: the path is found when the walk arrives at end itself,
\* so a return to the start node is never seen.
PathToCallback_ReachedEnd(g, end, st, n) ==
    IF st.hasPath
    THEN [ret |-> FALSE, hasPath |-> st.hasPath, path |-> st.path]
    ELSE IF n = end /\ st.path # <<>>
         THEN [ret |-> FALSE, hasPath |-> TRUE, path |-> Append(st.path, n)]
         ELSE [ret |-> TRUE, hasPath |-> FALSE, path |-> Append(st.path, n)]

\* The body of PathTo's closure, run on node n.
PathToCallback(g, end, st, n) ==
    IF st.hasPath
    THEN [ret |-> FALSE, hasPath |-> st.hasPath, path |-> st.path]
    ELSE LET path1 == Append(st.path, n)
             hit == \E i \in 1..Len(g[n]) :
                        /\ g[n][i].Direction \in PathToTags
                        /\ g[n][i].Node = end
         IN IF hit
            THEN [ret |-> FALSE, hasPath |-> TRUE, path |-> Append(path1, end)]
            ELSE [ret |-> TRUE, hasPath |-> FALSE, path |-> path1]

\* fn(root): what the callback returns and what it leaves in its captures.
Call(fn, g, st, n) ==
    CASE fn.kind = "wrapFn" ->
            [ret |-> TRUE, hasPath |-> st.hasPath, path |-> st.path]
      [] fn.kind = "stopFn" ->
            [ret |-> n \notin fn.stops, hasPath |-> st.hasPath, path |-> st.path]
      [] fn.kind = "pathTo" -> PathToCallback(g, fn.end, st, n)

\* A plausible slip: a Both-tagged record is not followed by a directed walk.
Follows_ExactOnly(direction, edge) ==
    CASE direction \in {Unknown, None, Both} -> TRUE
      [] direction \in {In, Out} -> edge.Direction = direction
      [] OTHER -> FALSE

\* The switch in visitWithTerminator's loop: whether the walk recurses into
\* edge.Node.  No case matches a direction outside the five values.
Follows(direction, edge) ==
    CASE direction \in {Unknown, None, Both} -> TRUE
      [] direction \in {In, Out} ->
            edge.Direction = direction \/ edge.Direction = Both
      [] OTHER -> FALSE

RECURSIVE visitWithTerminator(_, _, _, _, _)
RECURSIVE visitEdges(_, _, _, _, _, _)

\* func visitWithTerminator(root, record, direction, fn); root is never nil
\* here, and a nil record is the empty set of StartState.
visitWithTerminator(g, root, st, direction, fn) ==
    IF root \in st.record
    THEN st
    ELSE LET r == Call(fn, g, [st EXCEPT !.record = @ \cup {root}], root)
             st1 == [record |-> st.record \cup {root},
                     calls |-> Append(st.calls, [node |-> root, ret |-> r.ret]),
                     hasPath |-> r.hasPath,
                     path |-> r.path]
         IN IF ~r.ret
            THEN st1
            ELSE visitEdges(g, root, 1, st1, direction, fn)

\* The loop "for _, edge := range root.Edges", from the i-th record on.
visitEdges(g, root, i, st, direction, fn) ==
    IF i > Len(g[root])
    THEN st
    ELSE LET edge == g[root][i]
             st1 == IF Follows(direction, edge)
                    THEN visitWithTerminator(g, edge.Node, st, direction, fn)
                    ELSE st
         IN visitEdges(g, root, i + 1, st1, direction, fn)

\* func visit(root, record, fn): the record argument is ignored.
visit(g, root) == visitWithTerminator(g, root, StartState, Out, WrapFn)

\* A plausible slip: visitAll walks outwards only.
visitAll_OutOnly(g, root) == visitWithTerminator(g, root, StartState, Out, WrapFn)

\* func visitAll(root, record, fn)
visitAll(g, root) == visitWithTerminator(g, root, StartState, Both, WrapFn)

\* The nodes the callback was invoked on, in invocation order.
Invoked(st) == [i \in 1..Len(st.calls) |-> st.calls[i].node]

\* func (n *Node) PathTo(end *Node) Path; <<>> is the nil Path.
PathTo(g, n, end) ==
    LET st == visitWithTerminator(g, n, StartState, Out, PathToFn(end))
    IN IF ~st.hasPath THEN <<>> ELSE st.path

\* func (n *Node) HasPath(end *Node) bool
HasPath(g, n, end) == PathTo(g, n, end) # <<>>

----------------------------------------------------------------------------
(* The mutation API as actions.  A call is recorded in op; AddEdge and     *)
(* AddEdgeWithDirection record their arguments as well.                    *)

Init ==
    /\ edges = EmptyGraph
    /\ op = [name |-> "new"]
    /\ res = NoResult

DoAddEdge ==
    /\ Size(edges) < MaxConn
    /\ \E n \in Nodes, e \in Nodes :
          /\ edges' = AddEdge(edges, n, e)
          /\ op' = [name |-> "AddEdge", n |-> n, e |-> e]
    /\ res' = NoResult

DoAddLink ==
    /\ Size(edges) < MaxConn
    /\ \E n \in Nodes, e \in Nodes : edges' = AddLink(edges, n, e)
    /\ op' = [name |-> "AddLink"]
    /\ res' = NoResult

DoAddEdgeWithDirection ==
    /\ Size(edges) < MaxConn
    /\ \E n \in Nodes, e \in Nodes, d \in TagInputs :
          /\ edges' = AddEdgeWithDirection(edges, n, e, d)
          /\ op' = [name |-> "AddEdgeWithDirection", n |-> n, e |-> e,
                    direction |-> d]
    /\ res' = NoResult

DoConnectNodes ==
    /\ Size(edges) < MaxConn
    /\ \E nodes \in SeqUpTo(Nodes, MaxArgs) :
          edges' = ConnectNodes(edges, nodes)
    /\ op' = [name |-> "ConnectNodes"]
    /\ res' = NoResult

DoMeshNodes ==
    /\ Size(edges) < MaxConn
    /\ \E nodes \in SeqUpTo(Nodes, MaxArgs) :
          edges' = MeshNodes(edges, nodes)
    /\ op' = [name |-> "MeshNodes"]
    /\ res' = NoResult

Next ==
    \/ DoAddEdge
    \/ DoAddLink
    \/ DoAddEdgeWithDirection
    \/ DoConnectNodes
    \/ DoMeshNodes

Spec == Init /\ [][Next]_vars

----------------------------------------------------------------------------
(* Queries as actions: each applies the operation to the graph as the last *)
(* mutation left it (res = NoResult) and leaves what it returned in res;   *)
(* the caller may then go on building.                                     *)

DoMatch ==
    /\ res = NoResult
    /\ \E d \in DirectionInputs, direction \in DirectionInputs :
          /\ op' = [name |-> "Match", d |-> d, direction |-> direction]
          /\ res' = [kind |-> "bool", value |-> Match(d, direction)]
    /\ UNCHANGED edges

DoAdjacentTo ==
    /\ res = NoResult
    /\ \E n \in Nodes, nodes \in SeqUpTo(Nodes, MaxArgs) :
          /\ op' = [name |-> "AdjacentTo", n |-> n, nodes |-> nodes]
          /\ res' = [kind |-> "bool", value |-> AdjacentTo(edges[n], nodes)]
    /\ UNCHANGED edges

DoVisit ==
    /\ res = NoResult
    /\ \E root \in Nodes :
          /\ op' = [name |-> "Visit", root |-> root]
          /\ res' = [kind |-> "walk", st |-> visit(edges, root)]
    /\ UNCHANGED edges

DoVisitAll ==
    /\ res = NoResult
    /\ \E root \in Nodes :
          /\ op' = [name |-> "VisitAll", root |-> root]
          /\ res' = [kind |-> "walk", st |-> visitAll(edges, root)]
    /\ UNCHANGED edges

\* visitWithTerminator called with a callback of the caller's own.
DoVisitWithTerminator ==
    /\ res = NoResult
    /\ \E root \in Nodes, direction \in Directions, stops \in SUBSET Nodes :
          /\ op' = [name |-> "visitWithTerminator", root |-> root,
                    direction |-> direction, stops |-> stops]
          /\ res' = [kind |-> "walk",
                     st |-> visitWithTerminator(edges, root, StartState,
                                                direction, StopFn(stops))]
    /\ UNCHANGED edges

DoPathTo ==
    /\ res = NoResult
    /\ \E n \in Nodes, end \in Nodes :
          /\ op' = [name |-> "PathTo", n |-> n, end |-> end]
          /\ res' = [kind |-> "path", path |-> PathTo(edges, n, end)]
    /\ UNCHANGED edges

\* Direction matching on its own.
SpecMatch == Init /\ [][DoMatch]_vars

\* The mutation API with adjacency reads.
SpecAdjacent == Init /\ [][Next \/ DoAdjacentTo]_vars

\* The mutation API with Visit and VisitAll.
SpecVisit == Init /\ [][Next \/ DoVisit \/ DoVisitAll]_vars

\* The mutation API with the traversal engine under any callback.
SpecTerminator == Init /\ [][Next \/ DoVisitWithTerminator]_vars

\* The mutation API with path queries.
SpecPath == Init /\ [][Next \/ DoPathTo]_vars

----------------------------------------------------------------------------
(* Connection symmetry *)

\* Out <-> In; None, Unknown and Both are their own complement.
Complement(t) == IF t = Out THEN In ELSE IF t = In THEN Out ELSE t

\* Number of records on a that reference b with tag t.
Count(g, a, b, t) ==
    Cardinality({i \in 1..Len(g[a]) : g[a][i] = Edge(b, t)})

\* C1: after any sequence of AddEdge, AddLink, AddEdgeWithDirection,
\* ConnectNodes and MeshNodes calls on initially edge-less nodes, for every
\* pair of nodes A, B and every tag t, A holds as many records referencing B
\* with tag t as B holds records referencing A with the complementary tag.
ConnectionSymmetry ==
    \A a \in Nodes, b \in Nodes, t \in Directions :
        Count(edges, a, b, t) = Count(edges, b, a, Complement(t))

\* A graph to which every kind of call has contributed a record: a directed
\* edge next to an undirected one.
ConnectionSymmetryWitness ==
    /\ Size(edges) >= 2
    /\ \E a \in Nodes, b \in Nodes : a # b /\ Count(edges, a, b, Out) >= 1
    /\ \E a \in Nodes, b \in Nodes, t \in {None, Unknown, Both} :
          Count(edges, a, b, t) >= 1

----------------------------------------------------------------------------
(* AddEdge *)

\* Every list but those of the nodes in S is left as it was by this step.
OthersUnchanged(S) == \A m \in Nodes \ S : edges'[m] = edges[m]

\* The original wording of C2, for any nodes A and B: B's list gains exactly
\* one record, (A, In), A's list gains exactly one record, (B, Out), both at
\* the end, and no other node changes.
AddEdgeOneRecordEach ==
    [][op'.name = "AddEdge" =>
        /\ edges'[op'.e] = Append(edges[op'.e], Edge(op'.n, In))
        /\ edges'[op'.n] = Append(edges[op'.n], Edge(op'.e, Out))
        /\ OthersUnchanged({op'.n, op'.e})]_vars

\* C2 (amended): for distinct nodes A and B, AddEdge(A,B) appends exactly one
\* record (A, In) at the end of B's list and exactly one record (B, Out) at
\* the end of A's list; for A = B the one list gains both records, Out then
\* In.  Records that existed keep their position and no other node changes.
AddEdgeAppendsPair ==
    [][op'.name = "AddEdge" =>
        /\ op'.n # op'.e =>
              /\ edges'[op'.e] = Append(edges[op'.e], Edge(op'.n, In))
              /\ edges'[op'.n] = Append(edges[op'.n], Edge(op'.e, Out))
        /\ op'.n = op'.e =>
              edges'[op'.n] =
                  edges[op'.n] \o <<Edge(op'.n, Out), Edge(op'.n, In)>>
        /\ OthersUnchanged({op'.n, op'.e})]_vars

\* AddEdge(A,B) with A # B was the last call, made on lists that already
\* held records.
AddEdgeAppendsPairWitness ==
    /\ op.name = "AddEdge"
    /\ op.n # op.e
    /\ Len(edges[op.n]) >= 2
    /\ Len(edges[op.e]) >= 2

----------------------------------------------------------------------------
(* AddEdgeWithDirection *)

\* The tag stored on self for a call with direction d.
SelfTag(d) == d

\* The tag stored on target for a call with direction d: the table of C3.
TargetTag(d) == IF d = Out THEN In ELSE IF d = In THEN Out ELSE d

\* The graph is exactly what the last call, AddEdgeWithDirection(a, b, Out)
\* with a # b, makes of fresh nodes.
FreshOutEdge ==
    /\ op.name = "AddEdgeWithDirection"
    /\ op.direction = Out
    /\ op.n # op.e
    /\ Size(edges) = 1

\* The consequence C3 draws: a.HasPath(b) and not b.HasPath(a).
FreshOutEdgePaths ==
    FreshOutEdge =>
        /\ HasPath(edges, op.n, op.e)
        /\ ~HasPath(edges, op.e, op.n)

\* The original wording of C3: for each of the five tags one record on self
\* and one on target, whatever self and target are.
AddEdgeWithDirectionOneRecordEach ==
    /\ [][(op'.name = "AddEdgeWithDirection" /\ op'.direction \in Directions) =>
            /\ edges'[op'.n] =
                  Append(edges[op'.n], Edge(op'.e, SelfTag(op'.direction)))
            /\ edges'[op'.e] =
                  Append(edges[op'.e], Edge(op'.n, TargetTag(op'.direction)))
            /\ OthersUnchanged({op'.n, op'.e})]_vars
    /\ []FreshOutEdgePaths

\* C3 (amended): AddEdgeWithDirection(self, target, d) with d one of the five
\* tags and self # target appends exactly one record on self (referencing
\* target) and one on target (referencing self), tagged d/d for None, Unknown
\* and Both, Out/In for Out and In/Out for In; for self = target the one list
\* gains both records, self's first.  After a.AddEdgeWithDirection(b, Out) on
\* fresh nodes a.HasPath(b) is true and b.HasPath(a) is false.
AddEdgeWithDirectionTable ==
    /\ [][(op'.name = "AddEdgeWithDirection" /\ op'.direction \in Directions) =>
            /\ op'.n # op'.e =>
                  /\ edges'[op'.n] =
                        Append(edges[op'.n], Edge(op'.e, SelfTag(op'.direction)))
                  /\ edges'[op'.e] =
                        Append(edges[op'.e], Edge(op'.n, TargetTag(op'.direction)))
            /\ op'.n = op'.e =>
                  edges'[op'.n] =
                      edges[op'.n] \o <<Edge(op'.n, SelfTag(op'.direction)),
                                        Edge(op'.n, TargetTag(op'.direction))>>
            /\ OthersUnchanged({op'.n, op'.e})]_vars
    /\ []FreshOutEdgePaths

\* AddEdgeWithDirection(a, b, In) with a # b was the last call, made on lists
\* that already held records.
AddEdgeWithDirectionTableWitness ==
    /\ op.name = "AddEdgeWithDirection"
    /\ op.direction = In
    /\ op.n # op.e
    /\ Len(edges[op.n]) >= 2
    /\ Len(edges[op.e]) >= 2

----------------------------------------------------------------------------
(* Direction matching *)

\* The table of C4 as worded: an Unknown or out-of-range query matches only
\* a stored Unknown.
MatchTableOriginal(s, q) ==
    CASE q = None -> s = None
      [] q = In -> s \in {In, Both}
      [] q = Out -> s \in {Out, Both}
      [] q = Both -> s \in {In, Out, Both}
      [] OTHER -> s = Unknown

\* The table the code implements: an Unknown or out-of-range query also
\* matches every stored value above Both.
MatchTableAmended(s, q) ==
    CASE q = None -> s = None
      [] q = In -> s \in {In, Both}
      [] q = Out -> s \in {Out, Both}
      [] q = Both -> s \in {In, Out, Both}
      [] OTHER -> s = Unknown \/ s > Both

----------------------------------------------------------------------------
(* Adjacency *)

\* The nodes the records of list es reference.
Targets(es) == {es[i].Node : i \in 1..Len(es)}

\* C5: AdjacentTo(n1..nk) is true if and only if every given node is the
\* target of at least one record of the list, for every argument list,
\* the empty list and lists that repeat a node included.
AdjacentToIsConjunctive ==
    op.name = "AdjacentTo" =>
        (res.value <=>
            \A j \in 1..Len(op.nodes) : op.nodes[j] \in Targets(edges[op.n]))

----------------------------------------------------------------------------
(* Visit and VisitAll *)

\* Whether a walk of the named kind may use record e: Visit is the Out walk
\* (a Both record counts as Out), VisitAll uses every record.
Usable(name, e) == name = "VisitAll" \/ e.Direction \in {Out, Both}

\* The positions of u's records that a walk may use and that lead outside seen.
FreshAt(g, name, u, seen) ==
    {k \in 1..Len(g[u]) : Usable(name, g[u][k]) /\ g[u][k].Node \notin seen}

Max(S) == CHOOSE x \in S : \A y \in S : y <= x

Min(S) == CHOOSE x \in S : \A y \in S : x <= y

\* order is the depth-first pre-order of g from root: no node twice, root
\* first, each next node the first fresh target (in adjacency order) of the
\* most recently invoked node that still has one, and nothing left over.
IsPreOrder(g, name, root, order) ==
    /\ Len(order) >= 1
    /\ order[1] = root
    /\ \A i \in 1..Len(order), j \in 1..Len(order) :
          i # j => order[i] # order[j]
    /\ \A i \in 2..Len(order) :
          LET seen == {order[j] : j \in 1..(i - 1)}
              open == {j \in 1..(i - 1) : FreshAt(g, name, order[j], seen) # {}}
          IN /\ open # {}
             /\ LET u == order[Max(open)]
                IN order[i] = g[u][Min(FreshAt(g, name, u, seen))].Node
    /\ LET all == {order[j] : j \in 1..Len(order)}
       IN \A j \in 1..Len(order) : FreshAt(g, name, order[j], all) = {}

\* C6: during one Visit or VisitAll call the callback is invoked at most once
\* per node, the root first, and the nodes in depth-first pre-order following
\* each adjacency list in insertion order.
VisitIsPreOrder ==
    op.name \in {"Visit", "VisitAll"} =>
        IsPreOrder(edges, op.name, op.root, Invoked(res.st))

\* Visit from a on the cycle a -> b -> c -> a invoked a, b, c in that order.
VisitIsPreOrderWitness ==
    /\ op.name = "Visit"
    /\ Count(edges, 1, 2, Out) = 1
    /\ Count(edges, 2, 3, Out) = 1
    /\ Count(edges, 3, 1, Out) = 1
    /\ op.root = 1
    /\ Invoked(res.st) = <<1, 2, 3>>

----------------------------------------------------------------------------
(* Stopping a traversal *)

\* The positions of the calls that returned stop.
Stops(calls) == {i \in 1..Len(calls) : ~calls[i].ret}

\* C7: once the callback has returned stop, it is not invoked again and no
\* further node enters the visited set: only the last call can be a stop, and
\* the visited set is that of the calls made so far.
StopHaltsTraversal ==
    op.name = "visitWithTerminator" =>
        LET calls == res.st.calls
        IN \A i \in Stops(calls) :
              /\ i = Len(calls)
              /\ res.st.record = {calls[j].node : j \in 1..i}

----------------------------------------------------------------------------
(* Paths *)

\* The nodes x holds an Out- or Both-tagged record for.
OutNeighbours(g, x) ==
    {g[x][i].Node : i \in {k \in 1..Len(g[x]) : g[x][k].Direction \in {Out, Both}}}

\* The least set that holds S and is closed under OutNeighbours.
RECURSIVE OutClosure(_, _)
OutClosure(g, S) ==
    LET T == S \cup UNION {OutNeighbours(g, x) : x \in S}
    IN IF T = S THEN S ELSE OutClosure(g, T)

\* end can be reached from start by following one or more Out edges.
OutReachable(g, start, end) == end \in OutClosure(g, OutNeighbours(g, start))

\* C8: PathTo(start, end) is non-empty if and only if end can be reached from
\* start by following one or more edges in the Out direction (Both counting
\* as Out), on every graph built with any of the five tags.
HasPathIffOutReachable ==
    op.name = "PathTo" =>
        (res.path # <<>> <=> OutReachable(edges, op.n, op.end))

\* Every record of the graph is tagged In or Out, as AddEdge, AddLink,
\* ConnectNodes and MeshNodes leave it.
OnlyDirected(g) ==
    \A n \in Nodes : \A i \in 1..Len(g[n]) : g[n][i].Direction \in {In, Out}

\* C9: every non-empty path returned by PathTo(start, end) starts at start,
\* ends at end, and each two consecutive nodes x, y are joined by an edge
\* usable from x to y.  Stated on the graphs whose records are all tagged In
\* or Out, where an undirected record cannot be what ends the path.
PathIsWalk ==
    (op.name = "PathTo" /\ OnlyDirected(edges) /\ res.path # <<>>) =>
        /\ res.path[1] = op.n
        /\ res.path[Len(res.path)] = op.end
        /\ \A i \in 1..(Len(res.path) - 1) :
              res.path[i + 1] \in OutNeighbours(edges, res.path[i])

\* a holds a record referencing b with tag t.
HasRecord(g, a, b, t) == \E i \in 1..Len(g[a]) : g[a][i] = Edge(b, t)

\* The sequences of distinct nodes, of every length k >= 1.
DistinctSeqs ==
    {c \in SeqUpTo(Nodes, Cardinality(Nodes)) :
        /\ Len(c) >= 1
        /\ \A i \in 1..Len(c), j \in 1..Len(c) : i # j => c[i] # c[j]}

\* AddEdge has made c[1] -> c[2] -> ... -> c[k] -> c[1] a cycle: each node
\* holds an Out record for the next and the next an In record for it.
IsCycle(g, c) ==
    \A i \in 1..Len(c) :
        LET next == c[(i % Len(c)) + 1]
        IN HasRecord(g, c[i], next, Out) /\ HasRecord(g, next, c[i], In)

\* x and y lie on one such cycle (written from x on).
OnCommonCycle(g, x, y) ==
    \E c \in DistinctSeqs :
        /\ c[1] = x
        /\ \E i \in 1..Len(c) : c[i] = y
        /\ IsCycle(g, c)

\* C10: on a directed cycle built with AddEdge (of any length k >= 1),
\* HasPath(x, y) is true for every ordered pair of cycle nodes x, y, x = y
\* included.
HasPathAroundCycle ==
    op.name = "PathTo" =>
        (res.path # <<>> \/ ~OnCommonCycle(edges, op.n, op.end))

\* HasPath(a, a) was asked on the cycle a -> b -> c -> a.
HasPathAroundCycleWitness ==
    /\ op.name = "PathTo"
    /\ op.n = op.end
    /\ \E c \in DistinctSeqs : Len(c) = 3 /\ c[1] = op.n /\ IsCycle(edges, c)
    /\ Size(edges) = 3
    /\ res.path # <<>>

----------------------------------------------------------------------------
(* Cycles *)

\* The largest number of connections a graph of the cycle specifications has.
MaxEdges == 4

\* func (es Edges) Out() Edges: the records tagged exactly Out, in order.
EdgesOut(es) == SelectSeq(es, LAMBDA e : e.Direction = Out)

\* A plausible slip: an edge from n to itself is not taken for a cycle.
HasCycles_NoSelfLoop(g, n) ==
    LET out == EdgesOut(g[n])
    IN \E i \in 1..Len(out) : out[i].Node # n /\ HasPath(g, out[i].Node, n)

\* func (n *Node) HasCycles() bool
HasCycles(g, n) ==
    LET out == EdgesOut(g[n])
    IN \E i \in 1..Len(out) : HasPath(g, out[i].Node, n)

\* func (p Path) ContainsNode(n *Node) bool
ContainsNode(p, n) == \E i \in 1..Len(p) : p[i] = n

\* func (n *Node) HasCycleContaining(node *Node) bool
HasCycleContaining(g, n, node) ==
    LET out == EdgesOut(g[n])
    IN \E i \in 1..Len(out) :
          LET path == PathTo(g, out[i].Node, n)
          IN Len(path) > 0 /\ ContainsNode(path, node)

\* n.AddEdge(e) on a graph of fewer than MaxEdges connections.
GrowByAddEdge ==
    /\ Size(edges) < MaxEdges
    /\ \E n \in Nodes, e \in Nodes :
          /\ edges' = AddEdge(edges, n, e)
          /\ op' = [name |-> "AddEdge", n |-> n, e |-> e]
    /\ res' = NoResult

\* n.AddLink(e), which makes two connections.
GrowByAddLink ==
    /\ Size(edges) + 1 < MaxEdges
    /\ \E n \in Nodes, e \in Nodes :
          /\ edges' = AddLink(edges, n, e)
          /\ op' = [name |-> "AddLink", n |-> n, e |-> e]
    /\ res' = NoResult

DoHasCycles ==
    /\ res = NoResult
    /\ \E n \in Nodes :
          /\ op' = [name |-> "HasCycles", n |-> n]
          /\ res' = [kind |-> "bool", value |-> HasCycles(edges, n)]
    /\ UNCHANGED edges

DoHasCycleContaining ==
    /\ res = NoResult
    /\ \E n \in Nodes, node \in Nodes :
          /\ op' = [name |-> "HasCycleContaining", n |-> n, node |-> node]
          /\ res' = [kind |-> "bool",
                     value |-> HasCycleContaining(edges, n, node)]
    /\ UNCHANGED edges

\* Graphs built with AddEdge and AddLink, with HasCycles.
SpecCycles == Init /\ [][GrowByAddEdge \/ GrowByAddLink \/ DoHasCycles]_vars

\* Graphs built with AddEdge, with HasCycleContaining.
SpecCycleContaining ==
    Init /\ [][GrowByAddEdge \/ DoHasCycleContaining]_vars

\* C11: on every graph built with AddEdge and AddLink, HasCycles(n) is true
\* if and only if n is part of a directed cycle, that is, n can be reached
\* from n by one or more Out edges (a self-loop and the two-edge cycle of
\* AddLink included); so it is false on every node of an acyclic graph.
HasCyclesIffOnCycle ==
    op.name = "HasCycles" =>
        (res.value <=> OutReachable(edges, op.n, op.n))

\* HasCycles was asked on a node whose only cycle is the one AddLink made
\* (the node holds no self-loop and there are just the two connections).
HasCyclesIffOnCycleWitness ==
    /\ op.name = "HasCycles"
    /\ \E e \in Nodes \ {op.n} :
          /\ HasRecord(edges, op.n, e, Out)
          /\ HasRecord(edges, e, op.n, Out)
    /\ Size(edges) = 2
    /\ res.value

\* C12: on every graph built with AddEdge, HasCycleContaining(n, x) is true
\* if and only if x lies on a directed cycle through n; a node on no cycle
\* through n never makes it true and a node on a second cycle through n is
\* not missed.
HasCycleContainingIffOnCycle ==
    op.name = "HasCycleContaining" =>
        (res.value <=> OnCommonCycle(edges, op.n, op.node))

----------------------------------------------------------------------------
(* Bridges *)

\* The most nodes a graph grown node by node has.
MaxNodes == 6

\* The Name field of the nodes: node k carries the k-th label, and the labels
\* start again after the last one, names not being unique.
Labels == <<"a", "b", "c", "d", "e", "f", "g", "h">>

Name(n) == Labels[((n - 1) % Len(Labels)) + 1]

\* func (path Path) String() string: the names joined by an arrow, kept here
\* as the sequence of names (an empty path renders as the empty sequence).
PathString(path) == [i \in 1..Len(path) |-> Name(path[i])]

\* A plausible slip: paths are compared node by node, not by their rendering.
Identical_ByNodes(path, path2) == path = path2

\* func (path Path) Identical(path2 Path) bool
Identical(path, path2) == PathString(path) = PathString(path2)

\* func (paths Paths) ContainsPath(p Path) bool
ContainsPath(paths, p) == \E i \in 1..Len(paths) : Identical(paths[i], p)

\* A plausible slip: a path is recorded without looking for it first.
addUniqBridge_NoLookup(bridges, p) ==
    IF Len(p) = 0 THEN bridges ELSE Append(bridges, p)

\* The closure addUniqBridge of FindBridges.
addUniqBridge(bridges, p) ==
    IF Len(p) = 0 THEN bridges
    ELSE IF ~ContainsPath(bridges, p) THEN Append(bridges, p)
    ELSE bridges

\* A plausible slip: the test for a path back is left out.
BridgeToNeighbour_NoTest(g, m, p, bridges) ==
    addUniqBridge(bridges, PathTo(g, m, p))

\* The body of the loop "for _, edgeNodeEdge := range edge.Node.Edges" of
\* FindBridges, with m = edge.Node and p = edgeNodeEdge.Node.
BridgeToNeighbour(g, m, p, bridges) ==
    IF ~HasPath(g, p, m)
    THEN addUniqBridge(bridges, PathTo(g, m, p))
    ELSE bridges

\* That loop, from the j-th record of m on.
RECURSIVE BridgesOfNeighbours(_, _, _, _)
BridgesOfNeighbours(g, m, j, bridges) ==
    IF j > Len(g[m]) THEN bridges
    ELSE LET next == BridgeToNeighbour(g, m, g[m][j].Node, bridges)
         IN IF Len(next) = 0
            THEN BridgesOfNeighbours(g, m, j + 1, <<>>)
            ELSE BridgesOfNeighbours(g, m, j + 1, next)

\* A plausible slip: only a node with a single record is looked at.
BridgesAtEdge_LeafOnly(g, edge, bridges) ==
    LET m == edge.Node
    IN IF Len(g[m]) = 1
       THEN addUniqBridge(bridges, PathTo(g, m, g[m][1].Node))
       ELSE bridges

\* The body of the loop "for _, edge := range n.Edges" of FindBridges.
BridgesAtEdge(g, edge, bridges) ==
    LET m == edge.Node
    IN IF Len(g[m]) = 0 THEN bridges
       ELSE IF Len(g[m]) = 1
            THEN addUniqBridge(bridges, PathTo(g, m, g[m][1].Node))
            ELSE BridgesOfNeighbours(g, m, 1, bridges)

\* The callback FindBridges hands to VisitAll, on node n, from the i-th
\* record of n on.
RECURSIVE BridgesAtNode(_, _, _, _)
BridgesAtNode(g, n, i, bridges) ==
    IF i > Len(g[n]) THEN bridges
    ELSE LET next == BridgesAtEdge(g, g[n][i], bridges)
         IN IF Len(next) = 0
            THEN BridgesAtNode(g, n, i + 1, <<>>)
            ELSE BridgesAtNode(g, n, i + 1, next)

\* The callback run on the nodes VisitAll invokes it on, from the k-th on.
RECURSIVE BridgesOver(_, _, _, _)
BridgesOver(g, order, k, bridges) ==
    IF k > Len(order) THEN bridges
    ELSE LET next == BridgesAtNode(g, order[k], 1, bridges)
         IN IF Len(next) = 0
            THEN BridgesOver(g, order, k + 1, <<>>)
            ELSE BridgesOver(g, order, k + 1, next)

\* A plausible slip: the nodes are enumerated with Visit, outwards only.
FindBridges_OutOnly(g, root) == BridgesOver(g, Invoked(visit(g, root)), 1, <<>>)

\* func FindBridges(root *Node) []Path.  The loops above hand the bridges
\* found so far on as a value already computed (hence their test on Len), so
\* that evaluating a long run of the loops does not nest.
FindBridges(g, root) == BridgesOver(g, Invoked(visitAll(g, root)), 1, <<>>)

\* Number of nodes created so far; they are numbered 1, 2, ...
NodeCount(g) == Cardinality(DOMAIN g)

\* func NewNode(name, attrs): the graph with one more node, without edges.
NewNode(g) ==
    [n \in DOMAIN g \cup {NodeCount(g) + 1} |->
        IF n \in DOMAIN g THEN g[n] ELSE <<>>]

\* The nodes of g that hold no In record.
Roots(g) ==
    {n \in DOMAIN g : \A i \in 1..Len(g[n]) : g[n][i].Direction # In}

\* A graph of the single node a.
InitOneNode ==
    /\ edges = NewNode(<<>>)
    /\ op = [name |-> "new"]
    /\ res = NoResult

\* p.AddEdge(c) for an existing node p and a new node c.
GrowLeaf ==
    /\ NodeCount(edges) < MaxNodes
    /\ \E p \in DOMAIN edges :
          /\ edges' = AddEdge(NewNode(edges), p, NodeCount(edges) + 1)
          /\ op' = [name |-> "AddEdge", n |-> p, e |-> NodeCount(edges) + 1]
    /\ res' = NoResult

\* r.AddEdge(c) for a new node r and a node c that has no parent yet.
GrowRoot ==
    /\ NodeCount(edges) < MaxNodes
    /\ \E c \in Roots(edges) :
          /\ edges' = AddEdge(NewNode(edges), NodeCount(edges) + 1, c)
          /\ op' = [name |-> "AddEdge", n |-> NodeCount(edges) + 1, e |-> c]
    /\ res' = NoResult

\* FindBridges called on the node without a parent of a grown tree.
DoFindBridgesAtRoot ==
    /\ res = NoResult
    /\ NodeCount(edges) > 1
    /\ \E root \in Roots(edges) :
          /\ op' = [name |-> "FindBridges", root |-> root]
          /\ res' = [kind |-> "paths", paths |-> FindBridges(edges, root)]
    /\ UNCHANGED edges

\* Directed trees grown by AddEdge, below a leaf or above the root, with
\* FindBridges.
SpecTrees ==
    InitOneNode /\ [][GrowLeaf \/ GrowRoot \/ DoFindBridgesAtRoot]_vars

\* The connections of g as pairs <<x, y>> with an edge x -> y.
DirectedEdges(g) ==
    {xy \in (DOMAIN g) \X (DOMAIN g) : HasRecord(g, xy[1], xy[2], Out)}

\* The rendered paths of a result, as a set.
Rendered(paths) == {PathString(paths[i]) : i \in 1..Len(paths)}

\* The rendering "x -> y" of every pair of the set E.
RenderedEdges(E) == {<<Name(xy[1]), Name(xy[2])>> : xy \in E}

\* C13: on every directed tree built with AddEdge on distinctly labelled
\* nodes, FindBridges called on the tree's root returns exactly one path per
\* tree edge, rendered "parent -> child", and nothing else.
TreeEdgesAreBridges ==
    op.name = "FindBridges" =>
        /\ Rendered(res.paths) = RenderedEdges(DirectedEdges(edges))
        /\ Len(res.paths) = NodeCount(edges) - 1

\* FindBridges(a) on the tree a -> b, a -> c, b -> d, b -> e, e -> f gave
\* five bridges.
TreeEdgesAreBridgesWitness ==
    /\ op.name = "FindBridges"
    /\ op.root = 1
    /\ DirectedEdges(edges) =
          {<<1, 2>>, <<1, 3>>, <<2, 4>>, <<2, 5>>, <<5, 6>>}
    /\ Len(res.paths) = 5
    /\ <<"e", "f">> \in Rendered(res.paths)


\* c.AddEdge(e) for a new node c and any existing node e.
GrowParent ==
    /\ NodeCount(edges) < MaxNodes
    /\ \E e \in DOMAIN edges :
          /\ edges' = AddEdge(NewNode(edges), NodeCount(edges) + 1, e)
          /\ op' = [name |-> "AddEdge", n |-> NodeCount(edges) + 1, e |-> e]
    /\ res' = NoResult

\* The edges x -> y that lie on a directed cycle: y leads back to x.
CycleEdges(g) ==
    {xy \in DirectedEdges(g) : xy[1] = xy[2] \/ OutReachable(g, xy[2], xy[1])}

\* x.AddEdge(y) closing the first directed cycle of the graph: y is x itself
\* or a node that leads to x.
CloseCycle ==
    /\ CycleEdges(edges) = {}
    /\ \E x \in DOMAIN edges, y \in DOMAIN edges :
          /\ x = y \/ OutReachable(edges, y, x)
          /\ edges' = AddEdge(edges, x, y)
          /\ op' = [name |-> "AddEdge", n |-> x, e |-> y]
    /\ res' = NoResult

\* n.AddEdge(c) for the newest node n and a new node c.
GrowTail ==
    /\ NodeCount(edges) < MaxNodes
    /\ edges' = AddEdge(NewNode(edges), NodeCount(edges), NodeCount(edges) + 1)
    /\ op' = [name |-> "AddEdge", n |-> NodeCount(edges),
              e |-> NodeCount(edges) + 1]
    /\ res' = NoResult

\* FindBridges called on the first node, a.
DoFindBridgesFromA ==
    /\ res = NoResult
    /\ op' = [name |-> "FindBridges", root |-> 1]
    /\ res' = [kind |-> "paths", paths |-> FindBridges(edges, 1)]
    /\ UNCHANGED edges

\* Graphs grown by AddEdge from the node a: a chain extended at its end, new
\* nodes pointing at any node, and at most one directed cycle closed; with
\* FindBridges(a).
SpecOneCycle ==
    InitOneNode
        /\ [][GrowTail \/ GrowParent \/ CloseCycle \/ DoFindBridgesFromA]_vars

\* C14: on a graph made of one directed cycle plus edges and chains attached
\* to it, built with AddEdge, FindBridges reports exactly the attached edges,
\* each once, and no edge of the cycle (so {"a -> b"} on a -> b -> c -> d -> b
\* and {"a -> b", "b -> c"} on a -> b -> c -> d -> e -> c).
AttachedEdgesAreBridges ==
    (op.name = "FindBridges" /\ CycleEdges(edges) # {}) =>
        /\ Rendered(res.paths) =
              RenderedEdges(DirectedEdges(edges) \ CycleEdges(edges))
        /\ Len(res.paths) =
              Cardinality(DirectedEdges(edges) \ CycleEdges(edges))

\* FindBridges(a) on the cycle a -> b -> c -> a with d -> a, e -> b, f -> b
\* gave exactly "d -> a", "e -> b" and "f -> b".
AttachedEdgesAreBridgesWitness ==
    /\ op.name = "FindBridges"
    /\ DirectedEdges(edges) =
          {<<1, 2>>, <<2, 3>>, <<3, 1>>, <<4, 1>>, <<5, 2>>, <<6, 2>>}
    /\ Rendered(res.paths) = {<<"d", "a">>, <<"e", "b">>, <<"f", "b">>}
    /\ Len(res.paths) = 3


DoFindBridges ==
    /\ res = NoResult
    /\ \E root \in DOMAIN edges :
          /\ op' = [name |-> "FindBridges", root |-> root]
          /\ res' = [kind |-> "paths", paths |-> FindBridges(edges, root)]
    /\ UNCHANGED edges

\* Every graph of up to MaxEdges AddEdge calls on a, b, c, with FindBridges
\* called on any of them.
SpecBridges == Init /\ [][GrowByAddEdge \/ DoFindBridges]_vars

\* The nodes x holds a record for, whatever the tag, the step between u and
\* v (in either direction) left out.
NeighboursWithout(g, x, u, v) ==
    {g[x][i].Node : i \in 1..Len(g[x])} \ 
        (IF x = u THEN {v} ELSE IF x = v THEN {u} ELSE {})

\* The nodes connected to those of S when the step between u and v is not
\* used.
RECURSIVE ConnectedWithout(_, _, _, _)
ConnectedWithout(g, S, u, v) ==
    LET T == S \cup UNION {NeighboursWithout(g, x, u, v) : x \in S}
    IN IF T = S THEN S ELSE ConnectedWithout(g, T, u, v)

\* The connected component of root, direction ignored.
Component(g, root) == ConnectedWithout(g, {root}, root, root)

\* No self-loop and at most one connection between two nodes.
IsSimple(g) ==
    \A x \in DOMAIN g : \A i \in 1..Len(g[x]) :
        /\ g[x][i].Node # x
        /\ \A j \in 1..Len(g[x]) : g[x][j].Node = g[x][i].Node => j = i

\* Removing the edge x -> y of a simple graph separates x from y.
IsBridge(g, x, y) == y \notin ConnectedWithout(g, {x}, x, y)

\* C16: on every graph built with AddEdge on distinctly labelled nodes and
\* for every root, FindBridges(root) returns exactly the edges of root's
\* connected component whose removal increases the number of connected
\* components.  Stated on the graphs with no self-loop and no repeated
\* connection, where removing an edge removes the whole connection.
FindBridgesIsExact ==
    (op.name = "FindBridges" /\ IsSimple(edges)) =>
        Rendered(res.paths) =
            RenderedEdges({xy \in DirectedEdges(edges) :
                              /\ xy[1] \in Component(edges, op.root)
                              /\ IsBridge(edges, xy[1], xy[2])})


\* The barbell: the triangles a, b, c and d, e, f, joined between c and d.
LeftTriangle == {1, 2, 3}

RightTriangle == {4, 5, 6}

\* Six nodes a .. f without edges.
InitBarbell ==
    /\ edges = [n \in LeftTriangle \cup RightTriangle |-> <<>>]
    /\ op = [name |-> "new"]
    /\ res = NoResult

\* x and y are connected, in whatever direction.
Joined(g, x, y) == \E i \in 1..Len(g[x]) : g[x][i].Node = y

\* Every two nodes of T are connected.
Meshed(g, T) == \A x \in T, y \in T : x # y => Joined(g, x, y)

\* x.AddLink(y) for two nodes of the left triangle that are not connected
\* yet; the left triangle is linked first.
LinkLeft ==
    /\ \E x \in LeftTriangle, y \in LeftTriangle :
          /\ x # y
          /\ ~Joined(edges, x, y)
          /\ edges' = AddLink(edges, x, y)
          /\ op' = [name |-> "AddLink", n |-> x, e |-> y]
    /\ res' = NoResult

\* c.AddEdge(d), once the left triangle is complete.
JoinByEdge ==
    /\ Meshed(edges, LeftTriangle)
    /\ ~Joined(edges, 3, 4)
    /\ edges' = AddEdge(edges, 3, 4)
    /\ op' = [name |-> "AddEdge", n |-> 3, e |-> 4]
    /\ res' = NoResult

\* c.AddLink(d), once the left triangle is complete.
JoinByLink ==
    /\ Meshed(edges, LeftTriangle)
    /\ ~Joined(edges, 3, 4)
    /\ edges' = AddLink(edges, 3, 4)
    /\ op' = [name |-> "AddLink", n |-> 3, e |-> 4]
    /\ res' = NoResult

\* x.AddLink(y) in the right triangle, linked after the two are joined.
LinkRight ==
    /\ Joined(edges, 3, 4)
    /\ \E x \in RightTriangle, y \in RightTriangle :
          /\ x # y
          /\ ~Joined(edges, x, y)
          /\ edges' = AddLink(edges, x, y)
          /\ op' = [name |-> "AddLink", n |-> x, e |-> y]
    /\ res' = NoResult

\* The barbell built link by link (each link in either orientation, the
\* links of a triangle in any order), with FindBridges(a).
SpecBarbell ==
    InitBarbell
        /\ [][LinkLeft \/ JoinByEdge \/ JoinByLink \/ LinkRight
                \/ DoFindBridgesFromA]_vars

\* Both triangles are complete and joined.
BarbellBuilt(g) ==
    /\ Meshed(g, LeftTriangle)
    /\ Meshed(g, RightTriangle)
    /\ Joined(g, 3, 4)

\* C15: on the barbell, FindBridges(a) returns exactly one bridge "c -> d"
\* when the triangles are joined by the single edge c.AddEdge(d), and no
\* bridge at all when they are joined by c.AddLink(d).
BarbellBridges ==
    (op.name = "FindBridges" /\ BarbellBuilt(edges)) =>
        IF HasRecord(edges, 4, 3, Out)
        THEN res.paths = <<>>
        ELSE /\ Len(res.paths) = 1
             /\ PathString(res.paths[1]) = <<"c", "d">>

\* FindBridges(a) on the barbell joined by c.AddEdge(d) gave "c -> d".
BarbellBridgesWitness ==
    /\ op.name = "FindBridges"
    /\ BarbellBuilt(edges)
    /\ ~HasRecord(edges, 4, 3, Out)
    /\ Rendered(res.paths) = {<<"c", "d">>}

----------------------------------------------------------------------------
(* Cliques *)

\* The largest minSize FindCliques is called with.
MaxMinSize == 4

\* func (edges Edges) ButNotWith(n *Node) Edges
ButNotWith(es, n) == SelectSeq(es, LAMBDA e : e.Node # n)

\* func (ns NodeSet) Nodes() []*Node: the members in the order the map
\* yields them.  The one use below, as the arguments of AdjacentTo, gives the
\* same answer for every order of a list without repeats, so one is taken.
RECURSIVE NodeSetNodes(_)
NodeSetNodes(ns) ==
    IF ns = {} THEN <<>>
    ELSE LET n == CHOOSE x \in ns : TRUE
         IN <<n>> \o NodeSetNodes(ns \ {n})

\* func (ns NodeSet) SameAs(other NodeSet) bool
SameAs(ns, other) ==
    IF Cardinality(ns) # Cardinality(other) THEN FALSE
    ELSE \A n \in ns : n \in other

\* A plausible slip: a clique is never found among those recorded.
ContainsClique_Never(cliques, c) == FALSE

\* func (cliques Cliques) ContainsClique(c Clique) bool
ContainsClique(cliques, c) == \E i \in 1..Len(cliques) : SameAs(cliques[i], c)

\* A plausible slip: a candidate joins when it is adjacent to the start node
\* alone rather than to every member.
JoinsClique_StartOnly(g, n, clique, candidate) ==
    AdjacentTo(g[candidate], <<n>>)

\* The test of FindCliques' inner loop: otherEdge.Node is adjacent to every
\* member of the clique grown so far from n.
JoinsClique(g, n, clique, candidate) ==
    AdjacentTo(g[candidate], NodeSetNodes(clique))

\* The loop "for _, otherEdge := range n.Edges.ButNotWith(edge.Node)", from
\* the j-th of those records on.
RECURSIVE GrowOverOthers(_, _, _, _, _)
GrowOverOthers(g, n, others, j, clique) ==
    IF j > Len(others) THEN clique
    ELSE LET next == IF JoinsClique(g, n, clique, others[j].Node)
                     THEN clique \cup {others[j].Node}
                     ELSE clique
         IN IF next = clique
            THEN GrowOverOthers(g, n, others, j + 1, clique)
            ELSE GrowOverOthers(g, n, others, j + 1, next)

\* The loop "for _, edge := range n.Edges", from the i-th record on.
RECURSIVE GrowOverEdges(_, _, _, _)
GrowOverEdges(g, n, i, clique) ==
    IF i > Len(g[n]) THEN clique
    ELSE LET next == GrowOverOthers(g, n, ButNotWith(g[n], g[n][i].Node),
                                    1, clique)
         IN IF next = clique
            THEN GrowOverEdges(g, n, i + 1, clique)
            ELSE GrowOverEdges(g, n, i + 1, next)

\* The clique FindCliques' callback grows from n.
GrownFrom(g, n) == GrowOverEdges(g, n, 1, {n})

\* The callback run on the nodes VisitAll invokes it on, from the k-th on.
RECURSIVE CliquesOver(_, _, _, _, _)
CliquesOver(g, order, k, minSize, cliques) ==
    IF k > Len(order) THEN cliques
    ELSE LET n == order[k]
             clique == GrownFrom(g, n)
             next == IF Len(g[n]) = 0 THEN cliques
                     ELSE IF Cardinality(clique) >= minSize
                             /\ ~ContainsClique(cliques, clique)
                          THEN Append(cliques, clique)
                          ELSE cliques
         IN IF Len(next) = 0
            THEN CliquesOver(g, order, k + 1, minSize, <<>>)
            ELSE CliquesOver(g, order, k + 1, minSize, next)

\* func FindCliques(root *Node, minSize int) Cliques
FindCliques(g, root, minSize) ==
    CliquesOver(g, Invoked(visitAll(g, root)), 1, minSize, <<>>)

\* The calls that build the graph a -> b -> c -> d -> a plus c -> e, e -> d,
\* in order, as pairs of nodes.
CliqueScript == <<<<1, 2>>, <<2, 3>>, <<3, 4>>, <<4, 1>>, <<3, 5>>, <<5, 4>>>>

\* Five nodes a .. e without edges.
InitFiveNodes ==
    /\ edges = [n \in 1..5 |-> <<>>]
    /\ op = [name |-> "new"]
    /\ res = NoResult

\* The next AddEdge call of the script.
AddScriptEdge ==
    /\ Size(edges) < Len(CliqueScript)
    /\ LET call == CliqueScript[Size(edges) + 1]
       IN /\ edges' = AddEdge(edges, call[1], call[2])
          /\ op' = [name |-> "AddEdge", n |-> call[1], e |-> call[2]]
    /\ res' = NoResult

\* FindCliques(root, minSize); grown keeps, for the record, the set the
\* callback grew from each node.
DoFindCliques ==
    /\ res = NoResult
    /\ \E root \in DOMAIN edges, minSize \in 0..MaxMinSize :
          /\ op' = [name |-> "FindCliques", root |-> root,
                    minSize |-> minSize]
          /\ res' = [kind |-> "cliques",
                     cliques |-> FindCliques(edges, root, minSize),
                     grown |-> [n \in DOMAIN edges |-> GrownFrom(edges, n)]]
    /\ UNCHANGED edges

\* The graph of the clique example as it is built, with FindCliques.
SpecCliques == InitFiveNodes /\ [][AddScriptEdge \/ DoFindCliques]_vars

\* C17: on the graph a -> b -> c -> d -> a plus c -> e, e -> d, built with
\* AddEdge in that order, FindCliques(a, 3) returns exactly one clique, the
\* set {c, e, d}: the sets grown from a, b and d are smaller than 3 and the
\* set grown from e, the same as that from c, is not returned twice.
OneCliqueFound ==
    (/\ op.name = "FindCliques"
     /\ op.root = 1
     /\ op.minSize = 3
     /\ Size(edges) = Len(CliqueScript)) =>
        /\ res.cliques = <<{3, 5, 4}>>
        /\ \A n \in {1, 2, 4} : Cardinality(res.grown[n]) < 3
        /\ res.grown[3] = {3, 5, 4}
        /\ res.grown[5] = {3, 5, 4}

\* FindCliques(a, 3) was called on the finished graph and returned one
\* clique.
OneCliqueFoundWitness ==
    /\ op.name = "FindCliques"
    /\ op.root = 1
    /\ op.minSize = 3
    /\ Size(edges) = Len(CliqueScript)
    /\ Len(res.cliques) = 1

----------------------------------------------------------------------------
(* Partition checker.  The graph Instance and its methods are modelled from *)
(* the specification's sections 3 and 4.8.                                  *)

\* The largest k IsMultipartite is called with.
MaxClasses == 3

\* The node collection of the graph, in collection order: the nodes are
\* added in the order they were made.
Collection(g) == [i \in 1..NodeCount(g) |-> i]

\* A plausible slip: only the records n holds as Out count as adjacency.
FitsClass_OutOnly(g, n, class) ==
    \A m \in class : ~HasRecord(g, n, m, Out)

\* Node n has no adjacency to any current member of class.
FitsClass(g, n, class) == \A m \in class : ~Joined(g, n, m)

\* The position of the first existing class n fits in, 0 if there is none.
FirstClass(g, n, classes) ==
    LET fit == {j \in 1..Len(classes) : FitsClass(g, n, classes[j])}
    IN IF fit = {} THEN 0 ELSE Min(fit)

\* The greedy assignment from the i-th node of the collection on; failed is
\* set as soon as a class beyond the k-th would have to be opened.
RECURSIVE AssignClasses(_, _, _, _, _)
AssignClasses(g, nodes, i, classes, k) ==
    IF i > Len(nodes) THEN [failed |-> FALSE, classes |-> classes]
    ELSE LET n == nodes[i]
             j == FirstClass(g, n, classes)
         IN IF j # 0
            THEN AssignClasses(g, nodes, i + 1,
                               [classes EXCEPT ![j] = @ \cup {n}], k)
            ELSE IF Len(classes) + 1 > k
                 THEN [failed |-> TRUE, classes |-> classes]
                 ELSE AssignClasses(g, nodes, i + 1,
                                    Append(classes, {n}), k)

\* A plausible slip: at most k classes are accepted.
IsMultipartite_AtMost(g, k) ==
    LET r == AssignClasses(g, Collection(g), 1, <<>>, k)
    IN ~r.failed /\ Len(r.classes) <= k

\* IsMultipartite(k): exactly k classes must have been used.
IsMultipartite(g, k) ==
    LET r == AssignClasses(g, Collection(g), 1, <<>>, k)
    IN ~r.failed /\ Len(r.classes) = k

\* IsBipartite()
IsBipartite(g) == IsMultipartite(g, 2)

DoIsMultipartite ==
    /\ res = NoResult
    /\ \E k \in 0..MaxClasses :
          /\ op' = [name |-> "IsMultipartite", k |-> k]
          /\ res' = [kind |-> "bool", value |-> IsMultipartite(edges, k)]
    /\ UNCHANGED edges

DoIsBipartite ==
    /\ res = NoResult
    /\ op' = [name |-> "IsBipartite"]
    /\ res' = [kind |-> "bool", value |-> IsBipartite(edges)]
    /\ UNCHANGED edges

\* The edges a -> d, b -> d, b -> e, c -> e of the bipartite example.
BipartiteEdges == {<<1, 4>>, <<2, 4>>, <<2, 5>>, <<3, 5>>}

\* The two example graphs on a .. e: the bipartite one with d -> e added,
\* and a -> b -> c -> d -> a plus c -> e, e -> d.
ExampleGraphs ==
    {BipartiteEdges \cup {<<4, 5>>},
     {CliqueScript[i] : i \in 1..Len(CliqueScript)}}

\* x.AddEdge(y) for an edge of an example graph not added yet, in any order.
AddExampleEdge ==
    /\ \E ex \in ExampleGraphs :
          /\ DirectedEdges(edges) \subseteq ex
          /\ \E xy \in ex \ DirectedEdges(edges) :
                /\ edges' = AddEdge(edges, xy[1], xy[2])
                /\ op' = [name |-> "AddEdge", n |-> xy[1], e |-> xy[2]]
    /\ res' = NoResult

\* The example graphs on the collection a, b, c, d, e, built edge by edge,
\* with IsMultipartite and IsBipartite.
SpecPartitionExamples ==
    InitFiveNodes
        /\ [][AddExampleEdge \/ DoIsMultipartite \/ DoIsBipartite]_vars

\* C18: with the nodes in collection order a, b, c, d, e and the edges
\* a -> d, b -> d, b -> e, c -> e, IsBipartite() and IsMultipartite(2) are
\* true; with d -> e added IsMultipartite(2) is false; and on the graph
\* a -> b -> c -> d -> a plus c -> e, e -> d, IsBipartite() is false.
PartitionExamples ==
    LET E == DirectedEdges(edges)
        two == op.name = "IsBipartite"
                 \/ (op.name = "IsMultipartite" /\ op.k = 2)
    IN /\ (two /\ E = BipartiteEdges) => res.value
       /\ (two /\ E = BipartiteEdges \cup {<<4, 5>>}) => ~res.value
       /\ (two /\ E = {CliqueScript[i] : i \in 1..Len(CliqueScript)}) =>
              ~res.value

\* IsMultipartite(2) was called on the bipartite example with d -> e added
\* and returned false.
PartitionExamplesWitness ==
    /\ op.name = "IsMultipartite"
    /\ op.k = 2
    /\ DirectedEdges(edges) = BipartiteEdges \cup {<<4, 5>>}
    /\ ~res.value

\* Every graph of up to MaxEdges AddEdge calls on the collection a, b, c,
\* with IsMultipartite and IsBipartite.
SpecPartition ==
    Init /\ [][GrowByAddEdge \/ DoIsMultipartite \/ DoIsBipartite]_vars

\* f puts each node of the collection, in order, into the first class none
\* of whose earlier members is adjacent to it (a class is in use once an
\* earlier node is in it; the next new class is the one after those).
IsFirstFit(g, f) ==
    \A i \in DOMAIN g :
        LET free == {j \in 1..NodeCount(g) :
                        \A h \in 1..(i - 1) : f[h] = j => ~Joined(g, i, h)}
        IN f[i] = Min(free)

\* The number of classes the greedy assignment uses.
FirstFitClasses(g) ==
    LET f == CHOOSE f \in [DOMAIN g -> 1..NodeCount(g)] : IsFirstFit(g, f)
    IN Cardinality({f[i] : i \in DOMAIN g})

\* C19: IsMultipartite(k) takes the nodes in collection order, puts each
\* into the first existing class with no member adjacent to it and otherwise
\* opens a new class, is false as soon as a class beyond the k-th is needed
\* and true only if exactly k classes are in use at the end (so false for
\* k = 2 on a graph without edges); IsBipartite() equals IsMultipartite(2).
ExactlyKClasses ==
    /\ op.name = "IsMultipartite" =>
          (res.value <=> FirstFitClasses(edges) = op.k)
    /\ op.name = "IsBipartite" =>
          (res.value <=> FirstFitClasses(edges) = 2)

\* IsMultipartite(2) was called on a graph without edges, whose nodes all
\* go into one class, and returned false.
ExactlyKClassesWitness ==
    /\ op.name = "IsMultipartite"
    /\ op.k = 2
    /\ Size(edges) = 0
    /\ ~res.value

----------------------------------------------------------------------------
(* Graph-wide DFS and BFS, modelled from the specification's section 4.3.  *)

\* The most nodes a graph of the search specification has.
MaxSearchNodes == 5

\* The Out-neighbours of n in adjacency order (a Both record counts as Out),
\* as the walk of the traversal engine follows them.
OutTargets(g, n) ==
    LET out == SelectSeq(g[n], LAMBDA e : Follows(Out, e))
    IN [i \in 1..Len(out) |-> out[i].Node]

\* The Out-neighbours of cur, from the i-th on, join the frontier unless
\* they were met before.
RECURSIVE Enqueue(_, _, _, _)
Enqueue(targets, i, queue, record) ==
    IF i > Len(targets) THEN [queue |-> queue, record |-> record]
    ELSE IF targets[i] \in record
         THEN Enqueue(targets, i + 1, queue, record)
         ELSE Enqueue(targets, i + 1, Append(queue, targets[i]),
                      record \cup {targets[i]})

\* One breadth-first traversal: the callback runs on the oldest node of the
\* frontier, whose fresh Out-neighbours are then added at its end.
RECURSIVE bfs(_, _, _)
bfs(g, queue, st) ==
    IF queue = <<>> THEN st
    ELSE LET cur == Head(queue)
             q == Enqueue(OutTargets(g, cur), 1, Tail(queue), st.record)
             st1 == [st EXCEPT !.calls = Append(@, [node |-> cur, ret |-> TRUE]),
                               !.record = q.record]
         IN IF Len(st1.calls) > 0 THEN bfs(g, q.queue, st1) ELSE st

\* A plausible slip: the visited set is not kept from one traversal to the
\* next.
Launch_NoMemory(g, kind, n, st) ==
    LET fresh == [st EXCEPT !.record = {}]
    IN IF kind = "DFS"
       THEN visitWithTerminator(g, n, fresh, Out, WrapFn)
       ELSE bfs(g, <<n>>, [fresh EXCEPT !.record = {n}])

\* A fresh traversal launched from node n, which has not been visited.
Launch(g, kind, n, st) ==
    IF kind = "DFS"
    THEN visitWithTerminator(g, n, st, Out, WrapFn)
    ELSE bfs(g, <<n>>, [st EXCEPT !.record = @ \cup {n}])

\* The node collection is gone through from its i-th node on.
RECURSIVE SearchFrom(_, _, _, _, _)
SearchFrom(g, kind, nodes, i, st) ==
    IF i > Len(nodes) THEN st
    ELSE IF nodes[i] \in st.record
         THEN SearchFrom(g, kind, nodes, i + 1, st)
         ELSE LET st1 == Launch(g, kind, nodes[i], st)
              IN IF Len(st1.calls) > 0
                 THEN SearchFrom(g, kind, nodes, i + 1, st1)
                 ELSE st

\* DFS(fn) of the graph
DFS(g) == SearchFrom(g, "DFS", Collection(g), 1, StartState)

\* BFS(fn) of the graph
BFS(g) == SearchFrom(g, "BFS", Collection(g), 1, StartState)

\* AddNode: a new node without edges joins the collection.
AddNode ==
    /\ NodeCount(edges) < MaxSearchNodes
    /\ edges' = NewNode(edges)
    /\ op' = [name |-> "AddNode"]
    /\ res' = NoResult

\* AddNode followed by p.AddEdge(c) for an existing node p and the new
\* node c.
AddChild ==
    /\ NodeCount(edges) < MaxSearchNodes
    /\ \E p \in DOMAIN edges :
          /\ edges' = AddEdge(NewNode(edges), p, NodeCount(edges) + 1)
          /\ op' = [name |-> "AddEdge", n |-> p, e |-> NodeCount(edges) + 1]
    /\ res' = NoResult

\* No cycle, whatever the direction of the edges: each connection joins two
\* components.
IsForest(g) ==
    Size(g) + Cardinality({Component(g, n) : n \in DOMAIN g}) = NodeCount(g)

\* x.AddEdge(y) inside one tree of a forest.
AddChord ==
    /\ IsForest(edges)
    /\ \E x \in DOMAIN edges : \E y \in Component(edges, x) :
          /\ edges' = AddEdge(edges, x, y)
          /\ op' = [name |-> "AddEdge", n |-> x, e |-> y]
    /\ res' = NoResult

DoDFS ==
    /\ res = NoResult
    /\ op' = [name |-> "DFS"]
    /\ res' = [kind |-> "walk", st |-> DFS(edges)]
    /\ UNCHANGED edges

DoBFS ==
    /\ res = NoResult
    /\ op' = [name |-> "BFS"]
    /\ res' = [kind |-> "walk", st |-> BFS(edges)]
    /\ UNCHANGED edges

\* Forests grown by AddNode and AddEdge, with at most one further edge
\* inside a tree (several components, a cycle); with DFS and BFS.
SpecSearch ==
    InitOneNode /\ [][AddNode \/ AddChild \/ AddChord \/ DoDFS \/ DoBFS]_vars

\* The nodes invoked before position i of order.
Before(order, i) == {order[h] : h \in 1..(i - 1)}

\* Position i of order starts a traversal: nothing invoked before it has an
\* Out-neighbour still to be visited.
StartsTraversal(g, order, i) ==
    OutClosure(g, Before(order, i)) = Before(order, i)

\* The position at which the traversal that invoked order[i] started.
TraversalOf(g, order, i) ==
    Max({s \in 1..i : StartsTraversal(g, order, s)})

\* Every node of the collection is invoked exactly once.
InvokedOnce(g, order) ==
    /\ Len(order) = NodeCount(g)
    /\ {order[i] : i \in 1..Len(order)} = DOMAIN g

\* Each traversal is launched from the first node of the collection not yet
\* visited, and goes on while there is an Out-neighbour left to visit.
LaunchedInOrder(g, order) ==
    \A i \in 1..Len(order) :
        IF StartsTraversal(g, order, i)
        THEN order[i] = Min(DOMAIN g \ Before(order, i))
        ELSE order[i] \in OutClosure(g, Before(order, i))

\* The position, within its traversal, of the node that brought order[i]
\* into the frontier: the earliest one with an Out edge to it.
Discoverer(g, order, i) ==
    Min({p \in TraversalOf(g, order, i)..(i - 1) :
            order[i] \in OutNeighbours(g, order[p])})

\* The position of v among the Out-neighbours of u.
RankAt(g, u, v) ==
    Min({k \in 1..Len(OutTargets(g, u)) : OutTargets(g, u)[k] = v})

\* First in, first out: within a traversal the nodes are invoked in the
\* order of their discoverers, and those of one discoverer in its adjacency
\* order.
IsFifo(g, order) ==
    \A i \in 1..Len(order), j \in 1..Len(order) :
        (/\ i < j
         /\ ~StartsTraversal(g, order, i)
         /\ TraversalOf(g, order, i) = TraversalOf(g, order, j)) =>
            LET p == Discoverer(g, order, i)
                q == Discoverer(g, order, j)
            IN \/ p < q
               \/ p = q /\ RankAt(g, order[p], order[i])
                                < RankAt(g, order[p], order[j])

\* The edges of the cycle a -> b -> c -> d -> e -> a.
FiveCycle == {<<1, 2>>, <<2, 3>>, <<3, 4>>, <<4, 5>>, <<5, 1>>}

\* C20: graph-wide DFS and BFS each invoke the callback exactly once for
\* every node of the collection, whatever the edges are, launching a fresh
\* traversal from each not-yet-visited node in collection order; on the
\* cycle a -> b -> c -> d -> e -> a DFS visits a, b, c, d, e in that order,
\* and BFS visits Out-neighbours in first-in-first-out order.
SearchVisitsAllOnce ==
    op.name \in {"DFS", "BFS"} =>
        LET order == Invoked(res.st)
        IN /\ InvokedOnce(edges, order)
           /\ LaunchedInOrder(edges, order)
           /\ (op.name = "DFS" /\ NodeCount(edges) = 5
                  /\ DirectedEdges(edges) = FiveCycle) =>
                 order = <<1, 2, 3, 4, 5>>
           /\ op.name = "BFS" => IsFifo(edges, order)

\* DFS ran on the cycle a -> b -> c -> d -> e -> a and invoked five nodes.
SearchVisitsAllOnceWitness ==
    /\ op.name = "DFS"
    /\ NodeCount(edges) = 5
    /\ DirectedEdges(edges) = FiveCycle
    /\ Len(res.st.calls) = 5

----------------------------------------------------------------------------
(* Positional access to a node collection *)

\* The indices AtIndex is called with: below, inside and beyond a collection
\* of up to MaxArgs nodes.
IndexInputs == (0 - 2) .. (MaxArgs + 1)

\* func (nodes Nodes) AtIndex(i int) (*Node, error).  The slice is indexed
\* from 0; the only test is len(nodes) <= i, so a negative i reaches nodes[i],
\* where the runtime panics with an index out of range.
AtIndex(nodes, i) ==
    IF Len(nodes) <= i THEN [kind |-> "error"]
    ELSE IF i < 0 THEN [kind |-> "panic"]
    ELSE [kind |-> "node", node |-> nodes[i + 1]]

DoAtIndex ==
    /\ res = NoResult
    /\ \E nodes \in SeqUpTo(Nodes, MaxArgs), i \in IndexInputs :
          /\ op' = [name |-> "AtIndex", nodes |-> nodes, i |-> i]
          /\ res' = AtIndex(nodes, i)
    /\ UNCHANGED edges

\* AtIndex on its own, on every collection of up to MaxArgs nodes.
SpecAtIndex == Init /\ [][DoAtIndex]_vars

\* C21: for every collection and every integer i, AtIndex(i) returns the
\* i-th node and no error when 0 <= i < length, and no node together with an
\* index-out-of-range error for every other i, negative ones included; it is
\* never fatal.
AtIndexIsTotal ==
    op.name = "AtIndex" =>
        IF 0 <= op.i /\ op.i < Len(op.nodes)
        THEN res = [kind |-> "node", node |-> op.nodes[op.i + 1]]
        ELSE res = [kind |-> "error"]

----------------------------------------------------------------------------
(* Attribute bags *)

MaxAttrValue == 1

AttrNames == {"hello", "size"}
AttrTypes == {"string", "bool", "int"}

\* A stored value is an interface value: its dynamic type and its payload.
AttrValues == [type : AttrTypes, value : 0 .. MaxAttrValue]

\* type Attributes map[string]any.  A nil map reads as an empty one, ignores
\* delete, and panics on assignment.
NilAttributes == [nil |-> TRUE, entries |-> <<>>]
EmptyAttributes == [nil |-> FALSE, entries |-> <<>>]

NoError == "nil"
NotFound == "doesn't exist"
WrongType == "is of type"

\* The zero value of T, what the type assertion v.(T) leaves in vt on failure.
Zero(T) == [type |-> T, value |-> 0]

\* UseAttribute without the type assertion: fn is handed whatever is stored.
UseAttribute_NoTypeTest(attrs, name, T) ==
    IF name \notin DOMAIN attrs.entries
    THEN [err |-> NotFound, got |-> <<>>]
    ELSE [err |-> NoError, got |-> <<attrs.entries[name]>>]

\* func UseAttribute[T any](attrs Attributes, name string, fn func(T)) error:
\* the error returned and the values fn was called with.
UseAttribute(attrs, name, T) ==
    IF name \notin DOMAIN attrs.entries
    THEN [err |-> NotFound, got |-> <<>>]
    ELSE IF attrs.entries[name].type # T
         THEN [err |-> WrongType, got |-> <<>>]
         ELSE [err |-> NoError, got |-> <<attrs.entries[name]>>]

\* func GetAttribute[T any](attrs Attributes, name string) (T, error): v starts
\* as the zero value and is assigned by the callback; the error is wrapped.
GetAttribute(attrs, name, T) ==
    LET used == UseAttribute(attrs, name, T)
    IN  [err |-> used.err,
         value |-> IF Len(used.got) = 0 THEN Zero(T) ELSE used.got[Len(used.got)]]

\* func SetAttribute[T any](attrs Attributes, name string, value T):
\* attrs[name] = value, a run-time panic on a nil map.
SetAttribute(attrs, name, value) ==
    IF attrs.nil
    THEN [kind |-> "panic"]
    ELSE [kind |-> "attrs",
          attrs |-> [nil |-> FALSE,
                     entries |-> [k \in DOMAIN attrs.entries \cup {name} |->
                                     IF k = name THEN value ELSE attrs.entries[k]]]]

\* func DeleteAttribute[T any](attrs Attributes, name string): delete(attrs, name).
DeleteAttribute(attrs, name) ==
    [nil |-> attrs.nil,
     entries |-> [k \in DOMAIN attrs.entries \ {name} |-> attrs.entries[k]]]

\* The bag the calls work on is carried in res.attrs; op.attrs is the bag the
\* last call was given.  A node is created with a nil bag or with a literal.
InitAttributes ==
    /\ edges = EmptyGraph
    /\ op = [name |-> "new"]
    /\ \E attrs \in {NilAttributes, EmptyAttributes} :
          res = [kind |-> "attrs", attrs |-> attrs]

DoUseAttribute ==
    /\ res.kind = "attrs"
    /\ \E name \in AttrNames, T \in AttrTypes :
          LET used == UseAttribute(res.attrs, name, T)
          IN  /\ op' = [name |-> "UseAttribute", attrs |-> res.attrs,
                        key |-> name, T |-> T]
              /\ res' = [kind |-> "attrs", attrs |-> res.attrs,
                         err |-> used.err, got |-> used.got]
    /\ UNCHANGED edges

DoGetAttribute ==
    /\ res.kind = "attrs"
    /\ \E name \in AttrNames, T \in AttrTypes :
          LET got == GetAttribute(res.attrs, name, T)
          IN  /\ op' = [name |-> "GetAttribute", attrs |-> res.attrs,
                        key |-> name, T |-> T]
              /\ res' = [kind |-> "attrs", attrs |-> res.attrs,
                         err |-> got.err, value |-> got.value]
    /\ UNCHANGED edges

DoSetAttribute ==
    /\ res.kind = "attrs"
    /\ \E name \in AttrNames, value \in AttrValues :
          /\ op' = [name |-> "SetAttribute", attrs |-> res.attrs,
                    key |-> name, value |-> value]
          /\ res' = SetAttribute(res.attrs, name, value)
    /\ UNCHANGED edges

DoDeleteAttribute ==
    /\ res.kind = "attrs"
    /\ \E name \in AttrNames :
          /\ op' = [name |-> "DeleteAttribute", attrs |-> res.attrs, key |-> name]
          /\ res' = [kind |-> "attrs", attrs |-> DeleteAttribute(res.attrs, name)]
    /\ UNCHANGED edges

SpecAttributes ==
    InitAttributes
    /\ [][DoUseAttribute \/ DoGetAttribute \/ DoSetAttribute \/ DoDeleteAttribute]_vars

\* What a typed read of the bag must give, from the bag's contents.
Stored(attrs, name) == name \in DOMAIN attrs.entries
ReadError(attrs, name, T) ==
    IF ~Stored(attrs, name) THEN NotFound
    ELSE IF attrs.entries[name].type # T THEN WrongType ELSE NoError

----------------------------------------------------------------------------
(* The traversal engine one call and one loop iteration at a time *)

MaxWalkEdges == 2

\* A running traversal: the traversal state shared by all calls (st) and the
\* calls that are inside their loop, innermost last, each with the position
\* of its "for _, edge := range root.Edges" loop.
Frame(n) == [node |-> n, i |-> 1]

\* The call visitWithTerminator(n, record, direction, fn) up to its loop: it
\* returns at once on a visited node or when fn returns false, and otherwise
\* starts a loop over n.Edges.
EnterCall(g, n, walk, fn) ==
    IF n \in walk.st.record
    THEN walk
    ELSE LET r == Call(fn, g, [walk.st EXCEPT !.record = @ \cup {n}], n)
             st1 == [record |-> walk.st.record \cup {n},
                     calls |-> Append(walk.st.calls, [node |-> n, ret |-> r.ret]),
                     hasPath |-> r.hasPath,
                     path |-> r.path]
         IN [st |-> st1,
             stack |-> IF r.ret THEN Append(walk.stack, Frame(n)) ELSE walk.stack]

\* A plausible slip: the loop position is not advanced past a record the
\* walk does not follow.
LoopStep_StuckOnSkipped(g, walk, direction, fn) ==
    LET top == walk.stack[Len(walk.stack)]
    IN IF top.i > Len(g[top.node])
       THEN [walk EXCEPT !.stack = SubSeq(@, 1, Len(@) - 1)]
       ELSE LET edge == g[top.node][top.i]
            IN IF Follows(direction, edge)
               THEN EnterCall(g, edge.Node,
                              [walk EXCEPT !.stack[Len(walk.stack)].i = @ + 1], fn)
               ELSE walk

\* One iteration of the innermost loop: the loop ends (the call returns) or
\* it looks at the next record and, where the switch says so, makes the
\* recursive call.
LoopStep(g, walk, direction, fn) ==
    LET top == walk.stack[Len(walk.stack)]
    IN IF top.i > Len(g[top.node])
       THEN [walk EXCEPT !.stack = SubSeq(@, 1, Len(@) - 1)]
       ELSE LET edge == g[top.node][top.i]
                walk1 == [walk EXCEPT !.stack[Len(walk.stack)].i = @ + 1]
            IN IF Follows(direction, edge)
               THEN EnterCall(g, edge.Node, walk1, fn)
               ELSE walk1

\* The traversal is over when the outermost call has returned.
Running(walk) ==
    [kind |-> IF Len(walk.stack) = 0 THEN "walked" ELSE "walking",
     st |-> walk.st, stack |-> walk.stack]

\* The tags connections are made with; a connection made with In is the one
\* made with Out from the other end.
WalkTags == {Unknown, None, Out, Both}

\* Graphs of every shape: records of the five tags, self-loops, parallel
\* connections, AddLink pairs.  Nothing mutates the graph during a traversal.
AddTaggedEdge ==
    /\ res.kind # "walking"
    /\ Size(edges) < MaxWalkEdges
    /\ \E n \in Nodes, e \in Nodes, d \in WalkTags :
          /\ edges' = AddEdgeWithDirection(edges, n, e, d)
          /\ op' = [name |-> "AddEdgeWithDirection", n |-> n, e |-> e,
                    direction |-> d]
    /\ res' = NoResult

AddLinkPair ==
    /\ res.kind # "walking"
    /\ Size(edges) + 1 < MaxWalkEdges
    /\ \E n \in Nodes, e \in Nodes :
          /\ edges' = AddLink(edges, n, e)
          /\ op' = [name |-> "AddLink", n |-> n, e |-> e]
    /\ res' = NoResult

\* A first call of visitWithTerminator with a nil record: what the operation
\* is left with once the call is inside its loop or has returned.
Started(g, root, fn) ==
    Running(EnterCall(g, root, [st |-> StartState, stack |-> <<>>], fn))

\* visit(root, nil, fn)
StartVisit ==
    /\ res = NoResult
    /\ \E root \in Nodes :
          /\ op' = [name |-> "visitWithTerminator", root |-> root,
                    direction |-> Out, fn |-> WrapFn]
          /\ res' = Started(edges, root, WrapFn)
    /\ UNCHANGED edges

\* visitAll(root, nil, fn)
StartVisitAll ==
    /\ res = NoResult
    /\ \E root \in Nodes :
          /\ op' = [name |-> "visitWithTerminator", root |-> root,
                    direction |-> Both, fn |-> WrapFn]
          /\ res' = Started(edges, root, WrapFn)
    /\ UNCHANGED edges

\* The traversal n.PathTo(end) makes.
StartPathTo ==
    /\ res = NoResult
    /\ \E n \in Nodes, end \in Nodes :
          /\ op' = [name |-> "visitWithTerminator", root |-> n,
                    direction |-> Out, fn |-> PathToFn(end)]
          /\ res' = Started(edges, n, PathToFn(end))
    /\ UNCHANGED edges

StepWalk ==
    /\ res.kind = "walking"
    /\ res' = Running(LoopStep(edges, [st |-> res.st, stack |-> res.stack],
                               op.direction, op.fn))
    /\ UNCHANGED <<edges, op>>

NextWalk ==
    \/ AddTaggedEdge
    \/ AddLinkPair
    \/ StartVisit
    \/ StartVisitAll
    \/ StartPathTo
    \/ StepWalk
    \/ DoHasCycles
    \/ DoHasCycleContaining
    \/ DoFindBridges
    \/ DoFindCliques

\* A traversal that has started keeps running: the program is sequential.
SpecWalk == Init /\ [][NextWalk]_vars /\ WF_vars(StepWalk)

RECURSIVE NoRepeat(_)
NoRepeat(s) ==
    IF Len(s) <= 1 THEN TRUE
    ELSE /\ \A i \in 2..Len(s) : s[i] # s[1]
         /\ NoRepeat(Tail(s))

\* C23: every traversal-based operation terminates on every finite graph,
\* whatever its shape (directed cycles, self-loops, parallel edges, AddLink
\* pairs, Both/None/Unknown-tagged records): a traversal processes a node at
\* most once, so every started traversal finishes, with the result the
\* operations Visit, VisitAll, PathTo and HasPath are computed from, and
\* HasCycles, HasCycleContaining, FindBridges and FindCliques, which make
\* finitely many traversals, return a normal value.
TraversalsTerminate ==
    /\ [](res.kind \in {"walking", "walked"} =>
             /\ NoRepeat(Invoked(res.st))
             /\ Len(res.stack) <= Cardinality(Nodes))
    /\ [](res.kind = "walked" =>
             res.st = visitWithTerminator(edges, op.root, StartState,
                                          op.direction, op.fn))
    /\ (res.kind = "walking") ~> (res.kind = "walked")
    /\ [](op.name \in {"HasCycles", "HasCycleContaining"} => res.kind = "bool")
    /\ [](op.name = "FindBridges" => res.kind = "paths")
    /\ [](op.name = "FindCliques" => res.kind = "cliques")

\* A traversal that went around a directed cycle back to its root and found
\* it visited.
TraversalsTerminateWitness ==
    /\ res.kind = "walked"
    /\ op.direction = Out
    /\ Len(res.st.calls) >= 2
    /\ OutReachable(edges, op.root, op.root)

----------------------------------------------------------------------------
(* Visit and VisitAll on graphs of every shape *)

SpecVisitShapes ==
    Init /\ [][AddTaggedEdge \/ AddLinkPair \/ DoVisit \/ DoVisitAll]_vars

\* The nodes the callback was invoked on.
InvokedSet(st) == {st.calls[i].node : i \in 1..Len(st.calls)}

\* C24: VisitAll(root) treats records as undirected connectivity: it invokes
\* the callback on exactly the nodes of root's connected component (linked to
\* root by a chain of records of any tag, followed in either direction),
\* whereas Visit(root) invokes it only on root and the nodes reachable from
\* root in the Out direction.
VisitAllCoversComponent ==
    /\ op.name = "VisitAll" =>
          InvokedSet(res.st) = Component(edges, op.root)
    /\ op.name = "Visit" =>
          InvokedSet(res.st) \subseteq
             {op.root} \cup OutClosure(edges, OutNeighbours(edges, op.root))

\* VisitAll from a root that holds no outward record and is connected to
\* every other node.
VisitAllCoversComponentWitness ==
    /\ op.name = "VisitAll"
    /\ OutNeighbours(edges, op.root) = {}
    /\ Component(edges, op.root) = Nodes
    /\ InvokedSet(res.st) = Nodes

----------------------------------------------------------------------------
(* FindBridges on nodes that share a label *)

MaxTwinEdges == 2

\* A second node named "b".
Twin == Len(Labels) + 2

\* The nodes a, b, c and the second b.
TwinNodes == {1, 2, 3, Twin}

InitTwins ==
    /\ edges = [n \in TwinNodes |-> <<>>]
    /\ op = [name |-> "new"]
    /\ res = NoResult

GrowTwinsByAddEdge ==
    /\ Size(edges) < MaxTwinEdges
    /\ \E n \in TwinNodes, e \in TwinNodes :
          /\ edges' = AddEdge(edges, n, e)
          /\ op' = [name |-> "AddEdge", n |-> n, e |-> e]
    /\ res' = NoResult

SpecTwins == InitTwins /\ [][GrowTwinsByAddEdge \/ DoFindBridges]_vars

\* The same graph with the second b given a label of its own ("d"), and the
\* way back.
Apart(n) == IF n = Twin THEN Cardinality(TwinNodes) ELSE n
Together(x) == IF x = Cardinality(TwinNodes) THEN Twin ELSE x
Relabelled(g) ==
    [x \in {Apart(n) : n \in DOMAIN g} |->
        [i \in 1..Len(g[Together(x)]) |->
            Edge(Apart(g[Together(x)][i].Node), g[Together(x)][i].Direction)]]

\* The bridges recorded when all labels differ, in the order recorded, as
\* paths of the graph itself.
RecordedBridges(g, root) ==
    LET found == FindBridges(Relabelled(g), Apart(root))
    IN [k \in 1..Len(found) |->
           [i \in 1..Len(found[k]) |-> Together(found[k][i])]]

\* The first path of each rendering, in the order of paths.
RECURSIVE FirstOfEachRendering(_, _)
FirstOfEachRendering(paths, kept) ==
    IF Len(paths) = 0 THEN kept
    ELSE LET p == Head(paths)
             seen == \E k \in 1..Len(kept) : PathString(kept[k]) = PathString(p)
         IN FirstOfEachRendering(Tail(paths), IF seen THEN kept ELSE Append(kept, p))

\* C25: FindBridges deduplicates by rendered label path: the list it returns
\* never holds two paths with equal label sequences, so bridges between
\* different node pairs that carry the same labels are reported as one, and
\* the path kept is the first one recorded in traversal order.
BridgesUniqueByRendering ==
    op.name = "FindBridges" =>
        /\ \A i, j \in 1..Len(res.paths) :
              PathString(res.paths[i]) = PathString(res.paths[j]) => i = j
        /\ res.paths = FirstOfEachRendering(RecordedBridges(edges, op.root), <<>>)

\* Two nodes named b hang off a; both edges are recorded as bridges and one
\* path a -> b is returned.
BridgesUniqueByRenderingWitness ==
    /\ op.name = "FindBridges"
    /\ op.root = 1
    /\ edges[1] = <<Edge(Twin, Out), Edge(2, Out)>>
    /\ Len(RecordedBridges(edges, 1)) = 2
    /\ res.paths = <<<<1, Twin>>>>

----------------------------------------------------------------------------
(* FindCliques on graphs of every shape *)

MaxCliqueEdges == 3

\* Four nodes a, b, c, d without edges.
InitFourNodes ==
    /\ edges = NewNode(NewNode(NewNode(NewNode(<<>>))))
    /\ op = [name |-> "new"]
    /\ res = NoResult

\* n.AddEdge(e), self-loops and parallel connections included.  FindCliques
\* never looks at a record's tag, so one orientation of each pair is enough.
AddCliqueEdge ==
    /\ Size(edges) < MaxCliqueEdges
    /\ \E n \in DOMAIN edges, e \in DOMAIN edges :
          /\ n <= e
          /\ edges' = AddEdge(edges, n, e)
          /\ op' = [name |-> "AddEdge", n |-> n, e |-> e]
    /\ res' = NoResult

SpecCliqueShapes == InitFourNodes /\ [][AddCliqueEdge \/ DoFindCliques]_vars

\* x and y each hold a record that references the other.
Adjacent(g, x, y) == Joined(g, x, y) /\ Joined(g, y, x)

\* C26: every set returned by FindCliques(root, minSize), for every graph,
\* root and minSize, is a clique of admissible size: any two distinct members
\* are adjacent (each holds a record referencing the other), the set has at
\* least minSize members, and no two returned sets have the same members.
CliquesAreCliques ==
    op.name = "FindCliques" =>
        /\ \A k \in 1..Len(res.cliques) :
              /\ \A x \in res.cliques[k], y \in res.cliques[k] :
                    x # y => Adjacent(edges, x, y)
              /\ Cardinality(res.cliques[k]) >= op.minSize
        /\ \A k, l \in 1..Len(res.cliques) :
              res.cliques[k] = res.cliques[l] => k = l

\* FindCliques(root, 2) on the path a - b - c - d returns the three edges'
\* end points and no larger set.
CliquesAreCliquesWitness ==
    /\ op.name = "FindCliques"
    /\ op.minSize = 2
    /\ Adjacent(edges, 1, 2) /\ Adjacent(edges, 2, 3) /\ Adjacent(edges, 3, 4)
    /\ Len(res.cliques) >= 2

----------------------------------------------------------------------------
(* The interchange format: dot.go.  A document is the decoded graphJSON     *)
(* value: the number of node entries and the edge entries in order; names   *)
(* and attributes play no part in how records are made.                    *)

MaxDocNodes == 2
MaxDocEdges == 2

\* The directions written in edge entries.
DocTags == {Out, Both}

\* type edgeJSON: from_index and to_index count from 0.
EdgeEntries(n) ==
    [from_index : (0 - 1) .. (n + 1), direction : DocTags,
     to_index : (0 - 1) .. (n + 1)]

Documents ==
    UNION {[nodes : {n}, edges : SeqUpTo(EdgeEntries(n), MaxDocEdges)] :
              n \in 0 .. MaxDocNodes}

\* The two tests at the top of DecodeJSON's loop over the edge entries.
Skipped(entry, n) ==
    \/ entry.from_index < 0 \/ entry.from_index > n
    \/ entry.to_index < 0 \/ entry.to_index > n

\* The loop over the edge entries, from the k-th on: an entry that is not
\* skipped indexes nodes with both its indices, which panics on an index
\* equal to len(nodes), and appends one record to from.Edges.
RECURSIVE DecodeEdges(_, _, _)
DecodeEdges(g, entries, k) ==
    IF k > Len(entries) THEN [kind |-> "nodes", nodes |-> g]
    ELSE LET entry == entries[k]
             n == NodeCount(g)
         IN IF Skipped(entry, n)
            THEN DecodeEdges(g, entries, k + 1)
            ELSE IF entry.from_index >= n \/ entry.to_index >= n
                 THEN [kind |-> "panic"]
                 ELSE DecodeEdges(
                         [g EXCEPT ![entry.from_index + 1] =
                              Append(@, Edge(entry.to_index + 1, entry.direction))],
                         entries, k + 1)

\* func DecodeJSON(r io.Reader) (Nodes, error), on a well-formed document:
\* node i of the result is the number i + 1.
DecodeJSON(doc) ==
    DecodeEdges([i \in 1..doc.nodes |-> <<>>], doc.edges, 1)

DoDecodeJSON ==
    /\ res = NoResult
    /\ \E doc \in Documents :
          /\ op' = [name |-> "DecodeJSON", doc |-> doc]
          /\ res' = DecodeJSON(doc)
    /\ UNCHANGED edges

\* DecodeJSON on its own, on every document within the bounds.
SpecDecode == Init /\ [][DoDecodeJSON]_vars

\* The entries of a document that address two of its nodes.
Addressed(doc) ==
    SelectSeq(doc.edges,
              LAMBDA e : /\ 0 <= e.from_index /\ e.from_index < doc.nodes
                         /\ 0 <= e.to_index /\ e.to_index < doc.nodes)

\* C27: DecodeJSON never fails fatally on edge entries that do not address a
\* decoded node: for a document with n nodes every entry whose from_index or
\* to_index is negative or >= n is skipped, adding no record to any
\* adjacency list, and decoding still returns the n nodes with no error.
DecodeSkipsUnaddressed ==
    op.name = "DecodeJSON" =>
        /\ res.kind = "nodes"
        /\ NodeCount(res.nodes) = op.doc.nodes
        /\ SumLen(res.nodes, DOMAIN res.nodes) = Len(Addressed(op.doc))


\* C28: every graph returned by DecodeJSON satisfies connection symmetry: for
\* every edge entry (from, to, direction) accepted from the document, the
\* node to holds a back-record referencing from with the complementary tag.
DecodedGraphIsSymmetric ==
    (op.name = "DecodeJSON" /\ res.kind = "nodes") =>
        \A k \in 1..Len(Addressed(op.doc)) :
            LET entry == Addressed(op.doc)[k]
            IN HasRecord(res.nodes, entry.to_index + 1, entry.from_index + 1,
                         Complement(entry.direction))

\* func (nodes Nodes) IndexOf(o *Node) int, counting from 0.
IndexOf(nodes, o) ==
    IF \E i \in 1..Len(nodes) : nodes[i] = o
    THEN (CHOOSE i \in 1..Len(nodes) :
             nodes[i] = o /\ \A j \in 1..(i - 1) : nodes[j] # o) - 1
    ELSE 0 - 1

\* The entries EncodeJSON makes of the records of the i-th node of the
\* collection, in order.
EntriesOf(g, nodes, i) ==
    [k \in 1..Len(g[nodes[i]]) |->
        [from_index |-> i - 1,
         direction |-> g[nodes[i]][k].Direction,
         to_index |-> IndexOf(nodes, g[nodes[i]][k].Node)]]

RECURSIVE AllEntries(_, _, _)
AllEntries(g, nodes, i) ==
    IF i > Len(nodes) THEN <<>>
    ELSE EntriesOf(g, nodes, i) \o AllEntries(g, nodes, i + 1)

\* The map eim of EncodeJSON: an entry equal to an earlier one is dropped.
RECURSIVE Emitted(_, _)
Emitted(entries, eix) ==
    IF Len(entries) = 0 THEN eix
    ELSE Emitted(Tail(entries),
                 IF \E k \in 1..Len(eix) : eix[k] = Head(entries)
                 THEN eix ELSE Append(eix, Head(entries)))

\* func EncodeJSON(w io.Writer, nodes Nodes) error: the document written.
EncodeJSON(g, nodes) ==
    [nodes |-> Len(nodes), edges |-> Emitted(AllEntries(g, nodes, 1), <<>>)]

\* EncodeJSON of a collection of distinct nodes followed by DecodeJSON of
\* what was written.
DoEncodeDecode ==
    /\ res = NoResult
    /\ \E nodes \in DistinctSeqs :
          /\ op' = [name |-> "EncodeDecode", nodes |-> nodes,
                    doc |-> EncodeJSON(edges, nodes)]
          /\ res' = DecodeJSON(EncodeJSON(edges, nodes))
    /\ UNCHANGED edges

SpecRoundTrip == Init /\ [][AddTaggedEdge \/ AddLinkPair \/ DoEncodeDecode]_vars

\* The records of the i-th node of the collection as the decoded graph is to
\* hold them: targets by position in the collection, repeats dropped.
Expected(g, nodes, i) ==
    LET all == Emitted(EntriesOf(g, nodes, i), <<>>)
    IN [k \in 1..Len(all) |-> Edge(all[k].to_index + 1, all[k].direction)]

\* A collection that holds every node of the graph, decoded after encoding,
\* has node by node the adjacency of the encoded graph, in order and without
\* exact repeats, and so is symmetric.
RoundTripKeepsAdjacency ==
    (op.name = "EncodeDecode" /\ Len(op.nodes) = Cardinality(Nodes)) =>
        /\ res.kind = "nodes"
        /\ \A i \in 1..Len(op.nodes) :
              res.nodes[i] = Expected(edges, op.nodes, i)
        /\ \A i \in 1..Len(op.nodes) : \A k \in 1..Len(res.nodes[i]) :
              HasRecord(res.nodes, res.nodes[i][k].Node, i,
                        Complement(res.nodes[i][k].Direction))

----------------------------------------------------------------------------
(* What FindBridges computes *)

SpecBridgeShapes ==
    Init /\ [][GrowByAddEdge \/ GrowByAddLink \/ DoFindBridges]_vars

\* The paths of a list, as a set.
PathSet(paths) == {paths[k] : k \in 1..Len(paths)}

\* The Out edges u -> v of root's component with no Out-path from v back to u.
OneWayEdges(g, root) ==
    {<<xy[1], xy[2]>> : xy \in {e \in DirectedEdges(g) :
                                   /\ e[1] \in Component(g, root)
                                   /\ ~OutReachable(g, e[2], e[1])}}

\* The node of a component every root's result is compared with.
FirstOf(S) == CHOOSE x \in S : \A y \in S : x <= y

----------------------------------------------------------------------------
(* Cycle and path queries side by side *)

SpecCycleShapes == Init /\ [][AddTaggedEdge \/ AddLinkPair \/ DoHasCycles]_vars

\* C30: for every node n of every graph built with AddEdge, AddLink and
\* AddEdgeWithDirection (any of the five tags), HasCycles(n) equals
\* HasPath(n, n), and HasCycleContaining(n, n) equals HasCycles(n).
CycleQueriesAgree ==
    op.name = "HasCycles" =>
        /\ res.value = HasPath(edges, op.n, op.n)
        /\ HasCycleContaining(edges, op.n, op.n) = res.value

====
